---- MODULE Spec2Model ----
(***************************************************************************)
(* Crypto Tracker (script.js): the polling / rate-limit scheduler          *)
(* (fetchCryptocurrencyData and its timers), the comparison selection      *)
(* (toggleCryptoSelection, removeCoinFromComparison), the two rendered     *)
(* containers and the two localStorage keys.                               *)
(*                                                                         *)
(* Time is in milliseconds.  `now` is Date.now() (wall clock, which the    *)
(* system may set back); `clock` is the monotonic time base that           *)
(* setTimeout runs on.  A timer never fires before its due time.           *)
(***************************************************************************)
EXTENDS Integers, Sequences, FiniteSets, TLC

VARIABLES
    clock,              \* monotonic time (setTimeout's time base)
    now,                \* Date.now()
    started,            \* $(document).ready has run
    cryptocurrencies,   \* the Data Set
    comparisonCoins,    \* the selection
    lastFetchTime,
    isInitialLoad,
    timers,             \* due times of pending setTimeout(fetchCryptocurrencyData, ..)
    inflight,           \* initiation times of requests awaiting their response
    storage,            \* localStorage: keys comparisonCoins, userPreferences
    checkboxes,         \* the four preference checkboxes' checked state
    darkModeClass,      \* document.body has class dark-mode
    searchInput,        \* value of the search field
    sortOption,         \* value of the sort dropdown
    cryptoList,         \* content of #cryptoList
    comparisonContainer,\* content of #comparisonContainer
    loaderOverlay,      \* the full-screen loader
    notices,            \* notifications shown by the handler that ran last
    lastRequestAt,      \* history: clock at the latest request initiation (-1: none)
    lastCompletionAt,   \* history: clock at the latest request completion (-1: none)
    failsInRow,         \* history: failed fetches since the last successful one
    errorsInRow,        \* history: error notices of those failures
    dataBeforeFails,    \* history: the Data Set when the current run of failures began
    userOps,            \* history: number of user actions so far
    toggleLog,          \* history: the last two card clicks with no panel removal between
    removeLog,          \* history: the latest direct call removeCoinFromComparison(id)
    formatArg,          \* the argument of a formatting function
    formatted           \* the function applied to it and the string it returned

vars == <<clock, now, started, cryptocurrencies, comparisonCoins, lastFetchTime,
          isInitialLoad, timers, inflight, storage, checkboxes, darkModeClass,
          searchInput, sortOption, cryptoList, comparisonContainer, loaderOverlay,
          notices, lastRequestAt, lastCompletionAt, failsInRow, errorsInRow,
          dataBeforeFails, userOps, toggleLog, removeLog, formatArg, formatted>>

----------------------------------------------------------------------------
(* Program constants *)

MAX_COMPARISON == 5
RATE_LIMIT_INTERVAL == 60000

(* Bounds of the model *)

MaxUserOps == 1             \* user actions per run of Spec
MaxUserOpsUI == 3           \* user actions per run of SpecUI
MaxUserOpsCall == 2         \* user actions per run of SpecCall
MaxClock == 120000          \* time stops advancing here
MaxClockUI == 60000         \* SpecUI: time stops advancing here
Epoch == 1000000            \* Date.now() when the page is opened
MaxSetBack == 15000         \* how far the wall clock may fall behind in total
MaxFails == 3               \* failsInRow and errorsInRow count up to here
Horizon == 90000            \* SpecLive: how far back a past time is told apart
TickSteps == {30000}
SetBackSteps == {7300}

----------------------------------------------------------------------------
(* Data *)

\* localStorage.getItem: no item, or the item's text
NoItem == << >>
Item(text) == << text >>

Chars(c1, c2, c3) == <<c1, c2, c3>>

\* a numeric field of a JSON record: a number, or null
Num(n) == << n >>
Null == << >>

\* the number an arithmetic operator takes such a field for (null counts as 0)
ToNumber(v) == IF v = Null THEN 0 ELSE v[1]

Coin(id, name, symbol, price, cap, volume, change) ==
    [id |-> id, name |-> name, symbol |-> symbol, image |-> <<"img", id>>,
     current_price |-> price, market_cap |-> cap, total_volume |-> volume,
     price_change_percentage_24h |-> change]

Bitcoin(price, cap, change) == Coin("bitcoin",  Chars("B","i","t"), Chars("b","t","c"), price, cap, 70, change)
Ethereum(price, cap, change) == Coin("ethereum", Chars("E","t","h"), Chars("e","t","h"), price, cap, 50, change)
Dogecoin(price, cap, change) == Coin("dogecoin", Chars("D","o","g"), Chars("d","o","g"), price, cap, 20, change)
Tether == Coin("tether",  Chars("T","e","t"), Chars("u","s","d"), 1, 300, 90, Num(0))
Solana == Coin("solana",  Chars("S","o","l"), Chars("s","o","l"), 150, 200, 30, Num(4))
Cardano == Coin("cardano", Chars("C","a","r"), Chars("a","d","a"), 1, 100, 10, Num(-2))

\* bodies the market-data endpoint may answer with (market_cap_desc order)
Responses ==
    { << Bitcoin(500, 900, Num(2)), Ethereum(30, 400, Num(-1)), Dogecoin(1, 400, Null) >>,
      << Ethereum(40, 800, Num(3)), Bitcoin(450, 700, Num(-4)) >>,
      << >> }

RemoveAt(s, i) == [ j \in 1..(Len(s) - 1) |-> IF j < i THEN s[j] ELSE s[j + 1] ]

\* Array.prototype.findIndex, 1-based; 0 stands for -1
FindIndex(s, id) ==
    IF \E i \in 1..Len(s) : s[i].id = id
    THEN CHOOSE i \in 1..Len(s) : s[i].id = id /\ \A j \in 1..(i - 1) : s[j].id # id
    ELSE 0

Notice(type, text, num, name) == [type |-> type, text |-> text, num |-> num, name |-> name]

----------------------------------------------------------------------------
(* localStorage: JSON.stringify / JSON.parse of the selection *)

EntryOf(coin) == [id |-> coin.id, name |-> coin.name, symbol |-> coin.symbol, image |-> coin.image]

\* the JSON text of an array of entries: one object per entry, members in
\* insertion order of the keys
StringifyCoins(coins) ==
    [ i \in 1..Len(coins) |->
        << <<"id", coins[i].id>>, <<"name", coins[i].name>>,
           <<"symbol", coins[i].symbol>>, <<"image", coins[i].image>> >> ]

Member(obj, key) == (CHOOSE k \in 1..Len(obj) : obj[k][1] = key)

ParseCoins(text) ==
    [ i \in 1..Len(text) |->
        [id |-> text[i][Member(text[i], "id")][2],
         name |-> text[i][Member(text[i], "name")][2],
         symbol |-> text[i][Member(text[i], "symbol")][2],
         image |-> text[i][Member(text[i], "image")][2]] ]

StringifyPrefs(p) ==
    << <<"show24hChange", p.show24hChange>>, <<"showMarketCap", p.showMarketCap>>,
       <<"showVolume", p.showVolume>>, <<"enableDarkMode", p.enableDarkMode>> >>

ParsePrefs(text) ==
    [show24hChange |-> text[Member(text, "show24hChange")][2],
     showMarketCap |-> text[Member(text, "showMarketCap")][2],
     showVolume |-> text[Member(text, "showVolume")][2],
     enableDarkMode |-> text[Member(text, "enableDarkMode")][2]]

\* selections a previous session of the program may have left behind
SavedFour == << EntryOf(Tether), EntryOf(Solana), EntryOf(Bitcoin(500, 900, Num(2))), EntryOf(Cardano) >>
SavedFive == << EntryOf(Tether), EntryOf(Ethereum(30, 400, Num(-1))), EntryOf(Solana),
                EntryOf(Cardano), EntryOf(Bitcoin(500, 900, Num(2))) >>

AllOn == [show24hChange |-> TRUE, showMarketCap |-> TRUE, showVolume |-> TRUE, enableDarkMode |-> FALSE]
AllOff == [show24hChange |-> FALSE, showMarketCap |-> FALSE, showVolume |-> FALSE, enableDarkMode |-> FALSE]

\* what localStorage may hold when the page is opened: nothing (first visit),
\* or what earlier sessions of the program saved
InitialStores ==
    { [comparisonCoins |-> NoItem, userPreferences |-> NoItem],
      [comparisonCoins |-> Item(StringifyCoins(SavedFour)),
       userPreferences |-> Item(StringifyPrefs([AllOff EXCEPT !.enableDarkMode = TRUE]))],
      [comparisonCoins |-> Item(StringifyCoins(SavedFive)), userPreferences |-> NoItem] }

----------------------------------------------------------------------------
(* Formatting *)

\* a JavaScript value handed to a formatting function: null, undefined, or a
\* number kept in decimal as sign, whole part and fraction in units of 10^-7
NullArg == [kind |-> "null", neg |-> FALSE, whole |-> 0, frac |-> 0]

UndefinedArg == [kind |-> "undefined", neg |-> FALSE, whole |-> 0, frac |-> 0]

NumberArg(neg, whole, frac) == [kind |-> "number", neg |-> neg, whole |-> whole, frac |-> frac]

\* no formatting function has been applied yet
NotFormatted == [fn |-> "none", text |-> << >>]

\* the string 'N/A'
NotAvailable == << "N", "/", "A" >>

DigitChars == << "0", "1", "2", "3", "4", "5", "6", "7", "8", "9" >>

\* the decimal digits of a natural number
RECURSIVE ToDigits(_)
ToDigits(n) ==
    IF n < 10 THEN << DigitChars[n + 1] >>
    ELSE ToDigits(n \div 10) \o << DigitChars[(n % 10) + 1] >>

RECURSIVE PadStart(_, _)
PadStart(s, width) == IF Len(s) >= width THEN s ELSE PadStart(<< "0" >> \o s, width)

RECURSIVE StripZeros(_)
StripZeros(s) ==
    IF s # << >> /\ s[Len(s)] = "0" THEN StripZeros(SubSeq(s, 1, Len(s) - 1)) ELSE s

\* x < t for a number x and a positive number t
Less(x, t) ==
    \/ x.neg
    \/ x.whole < t.whole
    \/ x.whole = t.whole /\ x.frac < t.frac

\* x / 10^k for a non-negative number x; digits below 10^-7 are dropped, which
\* moves no later rounding to two places
DivideByPow10(x, k) ==
    NumberArg(x.neg, x.whole \div (10 ^ k),
              IF k >= 7 THEN (x.whole % (10 ^ k)) \div (10 ^ (k - 7))
              ELSE (x.whole % (10 ^ k)) * (10 ^ (7 - k)) + x.frac \div (10 ^ k))

\* the magnitude of x rounded to d fractional digits, half away from zero
\* (where the halfway case is exact; otherwise the binary value decides, and
\* FormatArgs holds no such number)
Rounded(x, d) ==
    LET unit  == 10 ^ (7 - d)
        kept  == x.frac \div unit
        up    == IF 2 * (x.frac % unit) >= unit THEN 1 ELSE 0
        carry == IF kept + up = 10 ^ d THEN 1 ELSE 0
    IN  [whole |-> x.whole + carry, fraction |-> kept + up - carry * (10 ^ d)]

Sign(x) == IF x.neg THEN << "-" >> ELSE << >>

\* Number.prototype.toFixed(d)
ToFixed(x, d) ==
    LET r == Rounded(x, d) IN
    Sign(x) \o ToDigits(r.whole) \o << "." >> \o PadStart(ToDigits(r.fraction), d)

\* Number.prototype.toString(): an integer prints its digits, a fraction its
\* shortest decimal, a magnitude below 10^-6 in exponent form
NumberToString(x) ==
    IF x.frac = 0 THEN (IF x.whole = 0 THEN << >> ELSE Sign(x)) \o ToDigits(x.whole)
    ELSE IF x.whole = 0 /\ x.frac < 10
         THEN Sign(x) \o ToDigits(x.frac) \o << "e", "-", "7" >>
         ELSE Sign(x) \o ToDigits(x.whole) \o << "." >> \o StripZeros(PadStart(ToDigits(x.frac), 7))

\* the en-US grouping of an integer part: a comma before every group of three
RECURSIVE GroupThousands(_)
GroupThousands(s) ==
    IF Len(s) <= 3 THEN s
    ELSE GroupThousands(SubSeq(s, 1, Len(s) - 3)) \o << "," >> \o SubSeq(s, Len(s) - 2, Len(s))

\* toLocaleString('en-US', { minimumFractionDigits: 2, maximumFractionDigits: 2 })
ToLocaleString(x) ==
    LET r == Rounded(x, 2) IN
    Sign(x) \o GroupThousands(ToDigits(r.whole)) \o << "." >> \o PadStart(ToDigits(r.fraction), 2)

\* variant: prices below 1 get the two digits of the next tier
FormatPriceTwoDigits(price) ==
    IF price.kind # "number" THEN NotAvailable
    ELSE IF Less(price, NumberArg(FALSE, 0, 100000)) THEN ToFixed(price, 6)
    ELSE IF Less(price, NumberArg(FALSE, 1, 0)) THEN ToFixed(price, 2)
    ELSE IF Less(price, NumberArg(FALSE, 10000, 0)) THEN ToFixed(price, 2)
    ELSE ToLocaleString(price)

\* formatPrice(price)
FormatPrice(price) ==
    IF price.kind # "number" THEN NotAvailable
    ELSE IF Less(price, NumberArg(FALSE, 0, 100000)) THEN ToFixed(price, 6)
    ELSE IF Less(price, NumberArg(FALSE, 1, 0)) THEN ToFixed(price, 4)
    ELSE IF Less(price, NumberArg(FALSE, 10000, 0)) THEN ToFixed(price, 2)
    ELSE ToLocaleString(price)

\* variant: the million tier starts above 1e6
FormatLargeNumberStrict(num) ==
    IF num.kind # "number" THEN NotAvailable
    ELSE IF ~Less(num, NumberArg(FALSE, 10 ^ 9, 0)) THEN ToFixed(DivideByPow10(num, 9), 2) \o << "B" >>
    ELSE IF ~Less(num, NumberArg(FALSE, 10 ^ 6, 1)) THEN ToFixed(DivideByPow10(num, 6), 2) \o << "M" >>
    ELSE IF ~Less(num, NumberArg(FALSE, 10 ^ 3, 0)) THEN ToFixed(DivideByPow10(num, 3), 2) \o << "K" >>
    ELSE NumberToString(num)

\* formatLargeNumber(num)
FormatLargeNumber(num) ==
    IF num.kind # "number" THEN NotAvailable
    ELSE IF ~Less(num, NumberArg(FALSE, 10 ^ 9, 0)) THEN ToFixed(DivideByPow10(num, 9), 2) \o << "B" >>
    ELSE IF ~Less(num, NumberArg(FALSE, 10 ^ 6, 0)) THEN ToFixed(DivideByPow10(num, 6), 2) \o << "M" >>
    ELSE IF ~Less(num, NumberArg(FALSE, 10 ^ 3, 0)) THEN ToFixed(DivideByPow10(num, 3), 2) \o << "K" >>
    ELSE NumberToString(num)

\* the arguments the formatting functions are tried on: null, undefined, and
\* numbers on both sides of every threshold, with and without a fraction
FormatWholes ==
    { 0, 1, 9, 999, 1000, 9999, 10000, 12346, 999999, 1000000, 1234567,
      999999999, 1000000000, 1500000000 }

FormatFracs == { 0, 126, 99999, 100000, 5000000, 9999999 }

FormatArgs ==
    { NullArg, UndefinedArg,
      NumberArg(TRUE, 5, 0), NumberArg(TRUE, 0, 5000000), NumberArg(TRUE, 2000000000, 0) }
    \cup { NumberArg(FALSE, w, f) : w \in FormatWholes, f \in FormatFracs }

----------------------------------------------------------------------------
(* Rendering *)

\* displayCryptocurrencies(coins): the new content of #cryptoList
DisplayCryptocurrencies(coins, selection, boxes) ==
    IF Len(coins) = 0
    THEN [kind |-> "none", cards |-> << >>]
    ELSE [kind |-> "cards",
          cards |-> [ i \in 1..Len(coins) |->
                        [coin |-> coins[i],
                         selected |-> \E j \in 1..Len(selection) : selection[j].id = coins[i].id,
                         showChange |-> boxes.show24hChange,
                         showMarketCap |-> boxes.showMarketCap,
                         showVolume |-> boxes.showVolume] ]]

\* one card of the comparison panel
ComparisonCard(compCoin, data, boxes) ==
    LET k == FindIndex(data, compCoin.id) IN
    IF k = 0
    THEN [id |-> compCoin.id, name |-> compCoin.name, symbol |-> compCoin.symbol,
          live |-> FALSE, price |-> 0,
          showChange |-> FALSE, showMarketCap |-> FALSE, showVolume |-> FALSE]
    ELSE [id |-> data[k].id, name |-> data[k].name, symbol |-> data[k].symbol,
          live |-> TRUE, price |-> data[k].current_price,
          showChange |-> boxes.show24hChange,
          showMarketCap |-> boxes.showMarketCap,
          showVolume |-> boxes.showVolume]

\* updateComparisonSection(): the new content of #comparisonContainer
UpdateComparisonSection(selection, data, boxes) ==
    IF Len(selection) = 0
    THEN [kind |-> "empty", cards |-> << >>]
    ELSE [kind |-> "cards",
          cards |-> [ i \in 1..Len(selection) |-> ComparisonCard(selection[i], data, boxes) ]]

----------------------------------------------------------------------------
(* Startup *)

\* the page before $(document).ready has run
PageInit ==
    /\ clock = 0
    /\ now = Epoch
    /\ started = FALSE
    /\ cryptocurrencies = << >>
    /\ comparisonCoins = << >>
    /\ lastFetchTime = 0
    /\ isInitialLoad = TRUE
    /\ timers = << >>
    /\ inflight = << >>
    /\ storage \in InitialStores
    /\ checkboxes = AllOn
    /\ darkModeClass = FALSE
    /\ searchInput = << >>
    /\ sortOption = "market_cap_desc"
    /\ cryptoList = [kind |-> "initial", cards |-> << >>]
    /\ comparisonContainer = [kind |-> "initial", cards |-> << >>]
    /\ loaderOverlay \in { [hidden |-> h, text |-> "Loading"] : h \in BOOLEAN }
    /\ notices = << >>
    /\ lastRequestAt = -1
    /\ lastCompletionAt = -1
    /\ failsInRow = 0
    /\ errorsInRow = 0
    /\ dataBeforeFails = << >>
    /\ userOps = 0
    /\ toggleLog = << >>
    /\ removeLog = << >>

Init ==
    /\ PageInit
    /\ formatArg = NullArg
    /\ formatted = NotFormatted

\* loadComparisonCoins()
LoadComparisonCoins(store, current) ==
    IF store.comparisonCoins # NoItem THEN ParseCoins(store.comparisonCoins[1]) ELSE current

\* loadUserPreferences(): the checkboxes after loading
LoadUserPreferences(store, boxes) ==
    IF store.userPreferences # NoItem THEN ParsePrefs(store.userPreferences[1]) ELSE boxes

----------------------------------------------------------------------------
(* fetchCryptocurrencyData *)

CeilDiv(a, b) == -((-a) \div b)

\* variant: an elapsed time of exactly one interval still counts as too early
RateLimitedInclusive(currentTime, last) ==
    currentTime - last <= RATE_LIMIT_INTERVAL /\ last # 0

\* the rate-limit gate of fetchCryptocurrencyData
RateLimited(currentTime, last) ==
    currentTime - last < RATE_LIMIT_INTERVAL /\ last # 0

WaitTime(currentTime, last) == RATE_LIMIT_INTERVAL - (currentTime - last)

\* variant: the wait is rounded down
RateLimitNoticeFloor(waitTime) == Notice("info", "rate_limit_wait_seconds", waitTime \div 1000, << >>)

RateLimitNotice(waitTime) == Notice("info", "rate_limit_wait_seconds", CeilDiv(waitTime, 1000), << >>)

\* variant: the type argument is left out and defaults to info
FetchErrorNoticeDefaultType == Notice("info", "failed_to_load", 0, << >>)

FetchErrorNotice == Notice("error", "failed_to_load", 0, << >>)

\* variant: the delay is given in seconds
NextFetchDelaySeconds == RATE_LIMIT_INTERVAL \div 1000

\* the delay of the timer armed after a success
NextFetchDelay == RATE_LIMIT_INTERVAL

\* variant: a failed fetch is retried after a second
RetryDelayShort == RATE_LIMIT_INTERVAL \div 60

\* the delay of the timer armed after a failure
RetryDelay == RATE_LIMIT_INTERVAL

\* setTimeout(fetchCryptocurrencyData, delay)
SetTimeout(pending, delay) == Append(pending, clock + delay)

\* variant: the next cycle is armed when the request is sent, not when it ends
FetchStartArmsNext(pending, overlay) ==
    LET currentTime == now IN
    IF RateLimited(currentTime, lastFetchTime)
    THEN /\ notices' = << RateLimitNotice(WaitTime(currentTime, lastFetchTime)) >>
         /\ timers' = SetTimeout(pending, WaitTime(currentTime, lastFetchTime))
         /\ loaderOverlay' = overlay
         /\ UNCHANGED <<inflight, cryptoList, lastRequestAt>>
    ELSE /\ IF isInitialLoad
            THEN /\ loaderOverlay' = [hidden |-> FALSE, text |-> "Fetching"]
                 /\ UNCHANGED cryptoList
            ELSE /\ cryptoList' = [kind |-> "loader", cards |-> << >>]
                 /\ loaderOverlay' = overlay
         /\ inflight' = Append(inflight, clock)
         /\ lastRequestAt' = clock
         /\ timers' = SetTimeout(pending, RATE_LIMIT_INTERVAL)
         /\ notices' = << >>

\* variant: the deferral shows its notice but arms no timer
FetchStartDefersWithoutTimer(pending, overlay) ==
    LET currentTime == now IN
    IF RateLimited(currentTime, lastFetchTime)
    THEN /\ notices' = << RateLimitNotice(WaitTime(currentTime, lastFetchTime)) >>
         /\ timers' = pending
         /\ loaderOverlay' = overlay
         /\ UNCHANGED <<inflight, cryptoList, lastRequestAt>>
    ELSE /\ IF isInitialLoad
            THEN /\ loaderOverlay' = [hidden |-> FALSE, text |-> "Fetching"]
                 /\ UNCHANGED cryptoList
            ELSE /\ cryptoList' = [kind |-> "loader", cards |-> << >>]
                 /\ loaderOverlay' = overlay
         /\ inflight' = Append(inflight, clock)
         /\ lastRequestAt' = clock
         /\ timers' = pending
         /\ notices' = << >>

\* fetchCryptocurrencyData up to its first await: the rate-limit gate, the
\* loading state and the request.  pending: the timers still armed;
\* overlay: the loader overlay on entry.
FetchStart(pending, overlay) ==
    LET currentTime == now IN
    IF RateLimited(currentTime, lastFetchTime)
    THEN /\ notices' = << RateLimitNotice(WaitTime(currentTime, lastFetchTime)) >>
         /\ timers' = SetTimeout(pending, WaitTime(currentTime, lastFetchTime))
         /\ loaderOverlay' = overlay
         /\ UNCHANGED <<inflight, cryptoList, lastRequestAt>>
    ELSE /\ IF isInitialLoad
            THEN /\ loaderOverlay' = [hidden |-> FALSE, text |-> "Fetching"]
                 /\ UNCHANGED cryptoList
            ELSE /\ cryptoList' = [kind |-> "loader", cards |-> << >>]
                 /\ loaderOverlay' = overlay
         /\ inflight' = Append(inflight, clock)
         /\ lastRequestAt' = clock
         /\ timers' = pending
         /\ notices' = << >>

\* $(document).ready
Ready ==
    /\ ~started
    /\ started' = TRUE
    /\ checkboxes' = LoadUserPreferences(storage, checkboxes)
    /\ darkModeClass' = IF storage.userPreferences # NoItem /\ checkboxes'.enableDarkMode
                        THEN TRUE ELSE darkModeClass
    /\ comparisonCoins' = LoadComparisonCoins(storage, comparisonCoins)
    /\ FetchStart(timers, [loaderOverlay EXCEPT !.hidden = FALSE])
    /\ UNCHANGED <<clock, now, cryptocurrencies, lastFetchTime, isInitialLoad, storage,
                   searchInput, sortOption, comparisonContainer,
                   lastCompletionAt, failsInRow, errorsInRow, dataBeforeFails, toggleLog, removeLog, formatArg, formatted>>

\* a timer armed by fetchCryptocurrencyData fires (never before it is due)
TimerFire(i) ==
    /\ started
    /\ i \in 1..Len(timers)
    /\ timers[i] <= clock
    /\ FetchStart(RemoveAt(timers, i), loaderOverlay)
    /\ UNCHANGED <<clock, now, started, cryptocurrencies, comparisonCoins, lastFetchTime,
                   isInitialLoad, storage, checkboxes, darkModeClass, searchInput,
                   sortOption, comparisonContainer,
                   lastCompletionAt, failsInRow, errorsInRow, dataBeforeFails, toggleLog, removeLog, formatArg, formatted>>

Capped(n) == IF n > MaxFails THEN MaxFails ELSE n

\* variant: the success path hides the loader but leaves isInitialLoad set
FetchSuccessKeepsInitial(i, data) ==
    /\ i \in 1..Len(inflight)
    /\ inflight' = RemoveAt(inflight, i)
    /\ cryptocurrencies' = data
    /\ lastFetchTime' = now
    /\ cryptoList' = DisplayCryptocurrencies(data, comparisonCoins, checkboxes)
    /\ comparisonContainer' =
          IF Len(comparisonCoins) > 0
          THEN UpdateComparisonSection(comparisonCoins, data, checkboxes)
          ELSE comparisonContainer
    /\ IF isInitialLoad
       THEN loaderOverlay' = [loaderOverlay EXCEPT !.hidden = TRUE]
       ELSE UNCHANGED loaderOverlay
    /\ UNCHANGED isInitialLoad
    /\ timers' = SetTimeout(timers, NextFetchDelay)
    /\ notices' = << >>
    /\ lastCompletionAt' = clock
    /\ failsInRow' = 0
    /\ errorsInRow' = 0
    /\ dataBeforeFails' = data
    /\ UNCHANGED <<clock, now, started, comparisonCoins, storage, checkboxes,
                   darkModeClass, searchInput, sortOption, lastRequestAt, toggleLog, removeLog, formatArg, formatted>>

\* variant: the success path drops the entries the response does not hold
FetchSuccessPrunes(i, data) ==
    /\ i \in 1..Len(inflight)
    /\ inflight' = RemoveAt(inflight, i)
    /\ cryptocurrencies' = data
    /\ lastFetchTime' = now
    /\ comparisonCoins' = SelectSeq(comparisonCoins, LAMBDA e : FindIndex(data, e.id) # 0)
    /\ cryptoList' = DisplayCryptocurrencies(data, comparisonCoins', checkboxes)
    /\ comparisonContainer' =
          IF Len(comparisonCoins') > 0
          THEN UpdateComparisonSection(comparisonCoins', data, checkboxes)
          ELSE comparisonContainer
    /\ IF isInitialLoad
       THEN /\ loaderOverlay' = [loaderOverlay EXCEPT !.hidden = TRUE]
            /\ isInitialLoad' = FALSE
       ELSE UNCHANGED <<loaderOverlay, isInitialLoad>>
    /\ timers' = SetTimeout(timers, NextFetchDelay)
    /\ notices' = << >>
    /\ lastCompletionAt' = clock
    /\ failsInRow' = 0
    /\ errorsInRow' = 0
    /\ dataBeforeFails' = data
    /\ UNCHANGED <<clock, now, started, storage, checkboxes,
                   darkModeClass, searchInput, sortOption, lastRequestAt, toggleLog, removeLog, formatArg, formatted>>

\* the request resolves with an OK response whose body parses to data
FetchSuccess(i, data) ==
    /\ i \in 1..Len(inflight)
    /\ inflight' = RemoveAt(inflight, i)
    /\ cryptocurrencies' = data
    /\ lastFetchTime' = now
    /\ cryptoList' = DisplayCryptocurrencies(data, comparisonCoins, checkboxes)
    /\ comparisonContainer' =
          IF Len(comparisonCoins) > 0
          THEN UpdateComparisonSection(comparisonCoins, data, checkboxes)
          ELSE comparisonContainer
    /\ IF isInitialLoad
       THEN /\ loaderOverlay' = [loaderOverlay EXCEPT !.hidden = TRUE]
            /\ isInitialLoad' = FALSE
       ELSE UNCHANGED <<loaderOverlay, isInitialLoad>>
    /\ timers' = SetTimeout(timers, NextFetchDelay)
    /\ notices' = << >>
    /\ lastCompletionAt' = clock
    /\ failsInRow' = 0
    /\ errorsInRow' = 0
    /\ dataBeforeFails' = data
    /\ UNCHANGED <<clock, now, started, comparisonCoins, storage, checkboxes,
                   darkModeClass, searchInput, sortOption, lastRequestAt, toggleLog, removeLog, formatArg, formatted>>

FailureKinds == {"transport", "status"}

\* variant: the catch block arms no retry
FetchFailNoRetry(i, kind) ==
    /\ i \in 1..Len(inflight)
    /\ kind \in FailureKinds
    /\ inflight' = RemoveAt(inflight, i)
    /\ IF isInitialLoad
       THEN /\ loaderOverlay' = [hidden |-> FALSE, text |-> "Error"]
            /\ UNCHANGED cryptoList
       ELSE /\ cryptoList' = [kind |-> "error", cards |-> << >>]
            /\ UNCHANGED loaderOverlay
    /\ notices' = << FetchErrorNotice >>
    /\ lastCompletionAt' = clock
    /\ failsInRow' = Capped(failsInRow + 1)
    /\ errorsInRow' = Capped(errorsInRow + 1)
    /\ dataBeforeFails' = IF failsInRow = 0 THEN cryptocurrencies ELSE dataBeforeFails
    /\ UNCHANGED <<clock, now, started, cryptocurrencies, comparisonCoins, lastFetchTime,
                   isInitialLoad, storage, checkboxes, darkModeClass, searchInput,
                   sortOption, comparisonContainer, lastRequestAt, toggleLog, removeLog, formatArg, formatted, timers>>

\* the request rejects (transport error) or resolves with a non-OK status
FetchFail(i, kind) ==
    /\ i \in 1..Len(inflight)
    /\ kind \in FailureKinds
    /\ inflight' = RemoveAt(inflight, i)
    /\ IF isInitialLoad
       THEN /\ loaderOverlay' = [hidden |-> FALSE, text |-> "Error"]
            /\ UNCHANGED cryptoList
       ELSE /\ cryptoList' = [kind |-> "error", cards |-> << >>]
            /\ UNCHANGED loaderOverlay
    /\ notices' = << FetchErrorNotice >>
    /\ timers' = SetTimeout(timers, RetryDelay)
    /\ lastCompletionAt' = clock
    /\ failsInRow' = Capped(failsInRow + 1)
    /\ errorsInRow' = Capped(errorsInRow + Cardinality({ n \in 1..Len(notices') : notices'[n].type = "error" }))
    /\ dataBeforeFails' = IF failsInRow = 0 THEN cryptocurrencies ELSE dataBeforeFails
    /\ UNCHANGED <<clock, now, started, cryptocurrencies, comparisonCoins, lastFetchTime,
                   isInitialLoad, storage, checkboxes, darkModeClass, searchInput,
                   sortOption, comparisonContainer, lastRequestAt, toggleLog, removeLog, formatArg, formatted>>

----------------------------------------------------------------------------
(* Time *)

Tick(d) ==
    /\ clock + d <= MaxClock
    /\ clock' = clock + d
    /\ now' = now + d
    /\ UNCHANGED <<started, cryptocurrencies, comparisonCoins, lastFetchTime,
                   isInitialLoad, timers, inflight, storage, checkboxes, darkModeClass,
                   searchInput, sortOption, cryptoList, comparisonContainer, loaderOverlay,
                   notices, lastRequestAt, lastCompletionAt, failsInRow, errorsInRow,
                   dataBeforeFails, toggleLog, removeLog, formatArg, formatted>>

\* a past time t, d later, on a time axis whose origin has moved along by d;
\* times further back than the horizon are not told apart
Aged(t, d, present) == IF t - d < present - Horizon THEN present - Horizon ELSE t - d

\* Time advances by d without end: as Tick up to MaxClock, and from there on
\* with the origin of the time axis moved along, so that clock and now keep
\* their values and every recorded time falls back by d.  The program reads
\* times only as now - lastFetchTime < RATE_LIMIT_INTERVAL and due <= clock,
\* which this keeps, Horizon being at least RATE_LIMIT_INTERVAL + MaxSetBack.
TickWindow(d) ==
    IF clock + d <= MaxClock
    THEN Tick(d)
    ELSE /\ timers' = [ i \in 1..Len(timers) |-> Aged(timers[i], d, clock) ]
         /\ inflight' = [ i \in 1..Len(inflight) |-> Aged(inflight[i], d, clock) ]
         /\ lastFetchTime' = IF lastFetchTime = 0 THEN 0 ELSE Aged(lastFetchTime, d, now)
         /\ lastRequestAt' = IF lastRequestAt = -1 THEN -1 ELSE Aged(lastRequestAt, d, clock)
         /\ lastCompletionAt' = IF lastCompletionAt = -1 THEN -1 ELSE Aged(lastCompletionAt, d, clock)
         /\ UNCHANGED <<clock, now, started, cryptocurrencies, comparisonCoins,
                        isInitialLoad, storage, checkboxes, darkModeClass,
                        searchInput, sortOption, cryptoList, comparisonContainer,
                        loaderOverlay, notices, failsInRow, errorsInRow,
                        dataBeforeFails, toggleLog, removeLog, formatArg, formatted>>

\* the system sets the wall clock back by d
SetBack(d) ==
    /\ (Epoch + clock) - (now - d) <= MaxSetBack
    /\ now' = now - d
    /\ UNCHANGED <<clock, started, cryptocurrencies, comparisonCoins, lastFetchTime,
                   isInitialLoad, timers, inflight, storage, checkboxes, darkModeClass,
                   searchInput, sortOption, cryptoList, comparisonContainer, loaderOverlay,
                   notices, lastRequestAt, lastCompletionAt, failsInRow, errorsInRow,
                   dataBeforeFails, toggleLog, removeLog, formatArg, formatted>>

----------------------------------------------------------------------------
(* Selection *)

AddedNotice(coin) == Notice("success", "added_to_comparison", 0, coin.name)
RemovedNotice(coin) == Notice("info", "removed_from_comparison", 0, coin.name)
LimitNotice == Notice("error", "maximum_comparison", MAX_COMPARISON, << >>)

\* variant: the limit test lets one more in
LimitReachedAbove(selection) == Len(selection) > MAX_COMPARISON

\* the add is refused
LimitReached(selection) == Len(selection) >= MAX_COMPARISON

\* variant: the removal splices one position too early
ToggledCoinsOffByOne(selection, coin) ==
    LET coinIndex == FindIndex(selection, coin.id) IN
    IF coinIndex # 0
    THEN RemoveAt(selection, IF coinIndex = 1 THEN Len(selection) ELSE coinIndex - 1)
    ELSE IF Len(selection) >= MAX_COMPARISON
         THEN selection
         ELSE Append(selection, EntryOf(coin))

\* variant: the new entry is put in front (unshift for push)
ToggledCoinsUnshift(selection, coin) ==
    LET coinIndex == FindIndex(selection, coin.id) IN
    IF coinIndex # 0
    THEN RemoveAt(selection, coinIndex)
    ELSE IF Len(selection) >= MAX_COMPARISON
         THEN selection
         ELSE << EntryOf(coin) >> \o selection

\* comparisonCoins after toggleCryptoSelection(coin)
ToggledCoins(selection, coin) ==
    LET coinIndex == FindIndex(selection, coin.id) IN
    IF coinIndex # 0
    THEN RemoveAt(selection, coinIndex)
    ELSE IF LimitReached(selection)
         THEN selection
         ELSE Append(selection, EntryOf(coin))

\* variant: classList.add in place of classList.toggle
ToggleSelectedClassAdd(list, id) ==
    [list EXCEPT !.cards = [ k \in 1..Len(list.cards) |->
        IF list.cards[k].coin.id = id
        THEN [list.cards[k] EXCEPT !.selected = TRUE]
        ELSE list.cards[k] ]]

\* card.classList.toggle('selected') on the cards of the coin
ToggleSelectedClass(list, id) ==
    [list EXCEPT !.cards = [ k \in 1..Len(list.cards) |->
        IF list.cards[k].coin.id = id
        THEN [list.cards[k] EXCEPT !.selected = ~list.cards[k].selected]
        ELSE list.cards[k] ]]

\* card.classList.remove('selected') on the cards of the coin
RemoveSelectedClass(list, id) ==
    [list EXCEPT !.cards = [ k \in 1..Len(list.cards) |->
        IF list.cards[k].coin.id = id
        THEN [list.cards[k] EXCEPT !.selected = FALSE]
        ELSE list.cards[k] ]]

\* saveComparisonCoins()
SaveComparisonCoins(store, selection) ==
    [store EXCEPT !.comparisonCoins = Item(StringifyCoins(selection))]

\* variant: the refusal shows its notice and falls through to the add
ToggleCryptoSelectionNoReturn(coin) ==
    LET coinIndex == FindIndex(comparisonCoins, coin.id) IN
    /\ comparisonCoins' = IF coinIndex # 0 THEN RemoveAt(comparisonCoins, coinIndex)
                          ELSE Append(comparisonCoins, EntryOf(coin))
    /\ notices' = IF coinIndex # 0 THEN << RemovedNotice(coin) >>
                  ELSE IF Len(comparisonCoins) >= MAX_COMPARISON
                       THEN << LimitNotice, AddedNotice(coin) >>
                       ELSE << AddedNotice(coin) >>
    /\ comparisonContainer' = UpdateComparisonSection(comparisonCoins', cryptocurrencies, checkboxes)
    /\ cryptoList' = ToggleSelectedClass(cryptoList, coin.id)
    /\ storage' = SaveComparisonCoins(storage, comparisonCoins')

\* toggleCryptoSelection(coin)
ToggleCryptoSelection(coin) ==
    LET coinIndex == FindIndex(comparisonCoins, coin.id) IN
    IF coinIndex = 0 /\ LimitReached(comparisonCoins)
    THEN /\ notices' = << LimitNotice >>
         /\ UNCHANGED <<comparisonCoins, comparisonContainer, cryptoList, storage>>
    ELSE /\ comparisonCoins' = ToggledCoins(comparisonCoins, coin)
         /\ notices' = IF coinIndex # 0 THEN << RemovedNotice(coin) >> ELSE << AddedNotice(coin) >>
         /\ comparisonContainer' = UpdateComparisonSection(comparisonCoins', cryptocurrencies, checkboxes)
         /\ cryptoList' = ToggleSelectedClass(cryptoList, coin.id)
         /\ storage' = SaveComparisonCoins(storage, comparisonCoins')

\* a click on the k-th card of the main list
CardClick(k) ==
    /\ started
    /\ k \in 1..Len(cryptoList.cards)
    /\ ToggleCryptoSelection(cryptoList.cards[k].coin)
    /\ toggleLog' = LET click == [id |-> cryptoList.cards[k].coin.id, before |-> comparisonCoins]
                    IN IF toggleLog = << >> THEN << click >>
                       ELSE << toggleLog[Len(toggleLog)], click >>
    /\ UNCHANGED <<clock, now, started, cryptocurrencies, lastFetchTime, isInitialLoad,
                   timers, inflight, checkboxes, darkModeClass, searchInput, sortOption,
                   loaderOverlay, lastRequestAt, lastCompletionAt, failsInRow,
                   errorsInRow, dataBeforeFails, removeLog, formatArg, formatted>>

\* variant: the removal from the panel does not save
RemoveCoinFromComparisonNoSave(coinId) ==
    LET coinIndex == FindIndex(comparisonCoins, coinId) IN
    IF coinIndex # 0
    THEN /\ comparisonCoins' = RemoveAt(comparisonCoins, coinIndex)
         /\ comparisonContainer' = UpdateComparisonSection(comparisonCoins', cryptocurrencies, checkboxes)
         /\ cryptoList' = RemoveSelectedClass(cryptoList, coinId)
         /\ storage' = storage
         /\ notices' = << RemovedNotice(comparisonCoins[coinIndex]) >>
    ELSE /\ notices' = << >>
         /\ UNCHANGED <<comparisonCoins, comparisonContainer, cryptoList, storage>>

\* variant: the save is made whether or not an entry was found
RemoveCoinFromComparisonAlwaysSaves(coinId) ==
    LET coinIndex == FindIndex(comparisonCoins, coinId) IN
    IF coinIndex # 0
    THEN /\ comparisonCoins' = RemoveAt(comparisonCoins, coinIndex)
         /\ comparisonContainer' = UpdateComparisonSection(comparisonCoins', cryptocurrencies, checkboxes)
         /\ cryptoList' = RemoveSelectedClass(cryptoList, coinId)
         /\ storage' = SaveComparisonCoins(storage, comparisonCoins')
         /\ notices' = << RemovedNotice(comparisonCoins[coinIndex]) >>
    ELSE /\ notices' = << >>
         /\ storage' = SaveComparisonCoins(storage, comparisonCoins)
         /\ UNCHANGED <<comparisonCoins, comparisonContainer, cryptoList>>

\* removeCoinFromComparison(coinId)
RemoveCoinFromComparison(coinId) ==
    LET coinIndex == FindIndex(comparisonCoins, coinId) IN
    IF coinIndex # 0
    THEN /\ comparisonCoins' = RemoveAt(comparisonCoins, coinIndex)
         /\ comparisonContainer' = UpdateComparisonSection(comparisonCoins', cryptocurrencies, checkboxes)
         /\ cryptoList' = RemoveSelectedClass(cryptoList, coinId)
         /\ storage' = SaveComparisonCoins(storage, comparisonCoins')
         /\ notices' = << RemovedNotice(comparisonCoins[coinIndex]) >>
    ELSE /\ notices' = << >>
         /\ UNCHANGED <<comparisonCoins, comparisonContainer, cryptoList, storage>>

\* a click on the remove button of the k-th card of the comparison panel
RemoveClick(k) ==
    /\ started
    /\ k \in 1..Len(comparisonContainer.cards)
    /\ RemoveCoinFromComparison(comparisonContainer.cards[k].id)
    /\ toggleLog' = << >>
    /\ UNCHANGED <<clock, now, started, cryptocurrencies, lastFetchTime, isInitialLoad,
                   timers, inflight, checkboxes, darkModeClass, searchInput, sortOption,
                   loaderOverlay, lastRequestAt, lastCompletionAt, failsInRow,
                   errorsInRow, dataBeforeFails, removeLog, formatArg, formatted>>

\* ids a caller may pass
CoinIds == {"bitcoin", "ethereum", "dogecoin", "tether", "solana", "cardano"}

\* removeCoinFromComparison(coinId) called with any id
RemoveCall(coinId) ==
    /\ started
    /\ coinId \in CoinIds
    /\ RemoveCoinFromComparison(coinId)
    /\ removeLog' = << [id |-> coinId, before |-> comparisonCoins] >>
    /\ toggleLog' = << >>
    /\ UNCHANGED <<clock, now, started, cryptocurrencies, lastFetchTime, isInitialLoad,
                   timers, inflight, checkboxes, darkModeClass, searchInput, sortOption,
                   loaderOverlay, lastRequestAt, lastCompletionAt, failsInRow,
                   errorsInRow, dataBeforeFails, formatArg, formatted>>

----------------------------------------------------------------------------
(* Search and sort *)

Space == " "

\* String.prototype.toLowerCase on the characters in use
LowerOf(c) ==
    CASE c = "B" -> "b" [] c = "C" -> "c" [] c = "D" -> "d" [] c = "E" -> "e"
      [] c = "S" -> "s" [] c = "T" -> "t" [] c = "O" -> "o"
      [] OTHER -> c

ToLowerCase(str) == [ i \in 1..Len(str) |-> LowerOf(str[i]) ]

\* String.prototype.trim
Trim(str) ==
    LET kept == { i \in 1..Len(str) : str[i] # Space } IN
    IF kept = {} THEN << >>
    ELSE SubSeq(str, CHOOSE i \in kept : \A j \in kept : i <= j,
                     CHOOSE i \in kept : \A j \in kept : i >= j)

\* String.prototype.includes
Includes(str, part) ==
    \E i \in 1..(Len(str) - Len(part) + 1) : SubSeq(str, i, i + Len(part) - 1) = part

\* variant: only the name is searched
MatchesNameOnly(coin, searchTerm) ==
    Includes(ToLowerCase(coin.name), searchTerm)

Matches(coin, searchTerm) ==
    \/ Includes(ToLowerCase(coin.name), searchTerm)
    \/ Includes(ToLowerCase(coin.symbol), searchTerm)

FilterCoins(coins, searchTerm) == SelectSeq(coins, LAMBDA coin : Matches(coin, searchTerm))

FoundNotice(count, searchTerm) == Notice("info", "found_matching", count, searchTerm)

\* text the user may have typed into the search field
SearchTerms == { << >>, << "E", "T" >>, << Space, "o" >>, << "B", "T" >>, << "b", "i" >> }

\* handleSearch(), the search field holding term
HandleSearch(term) ==
    LET searchTerm == ToLowerCase(Trim(term)) IN
    /\ started
    /\ searchInput' = term
    /\ IF searchTerm = << >>
       THEN /\ cryptoList' = DisplayCryptocurrencies(cryptocurrencies, comparisonCoins, checkboxes)
            /\ notices' = << >>
       ELSE /\ cryptoList' = DisplayCryptocurrencies(FilterCoins(cryptocurrencies, searchTerm),
                                                     comparisonCoins, checkboxes)
            /\ notices' = << FoundNotice(Len(FilterCoins(cryptocurrencies, searchTerm)), searchTerm) >>
    /\ UNCHANGED <<clock, now, started, cryptocurrencies, comparisonCoins, lastFetchTime,
                   isInitialLoad, timers, inflight, storage, checkboxes, darkModeClass,
                   sortOption, comparisonContainer, loaderOverlay,
                   lastRequestAt, lastCompletionAt, failsInRow, errorsInRow, dataBeforeFails, toggleLog, removeLog, formatArg, formatted>>

SortModes == {"market_cap_desc", "market_cap_asc", "price_desc", "price_asc",
              "change_desc", "change_asc"}

\* variant: the ascending price comparator is a copy of the descending one
CompareCopyPaste(mode, a, b) ==
    CASE mode = "market_cap_desc" -> b.market_cap - a.market_cap
      [] mode = "market_cap_asc"  -> a.market_cap - b.market_cap
      [] mode = "price_desc"      -> b.current_price - a.current_price
      [] mode = "price_asc"       -> b.current_price - a.current_price
      [] mode = "change_desc"     -> ToNumber(b.price_change_percentage_24h) - ToNumber(a.price_change_percentage_24h)
      [] mode = "change_asc"      -> ToNumber(a.price_change_percentage_24h) - ToNumber(b.price_change_percentage_24h)
      [] OTHER -> 0

\* the comparator of the sort mode
Compare(mode, a, b) ==
    CASE mode = "market_cap_desc" -> b.market_cap - a.market_cap
      [] mode = "market_cap_asc"  -> a.market_cap - b.market_cap
      [] mode = "price_desc"      -> b.current_price - a.current_price
      [] mode = "price_asc"       -> a.current_price - b.current_price
      [] mode = "change_desc"     -> ToNumber(b.price_change_percentage_24h) - ToNumber(a.price_change_percentage_24h)
      [] mode = "change_asc"      -> ToNumber(a.price_change_percentage_24h) - ToNumber(b.price_change_percentage_24h)
      [] OTHER -> 0

\* variant: x is placed in front of the elements it compares equal to
InsertSortedBeforeEquals(sorted, x, mode) ==
    LET below == { i \in 1..Len(sorted) : Compare(mode, sorted[i], x) < 0 }
        p == IF below = {} THEN 0 ELSE CHOOSE i \in below : \A j \in below : j <= i
    IN SubSeq(sorted, 1, p) \o << x >> \o SubSeq(sorted, p + 1, Len(sorted))

\* x placed behind the last element of sorted that does not compare above it
InsertSorted(sorted, x, mode) ==
    LET below == { i \in 1..Len(sorted) : Compare(mode, sorted[i], x) <= 0 }
        p == IF below = {} THEN 0 ELSE CHOOSE i \in below : \A j \in below : j <= i
    IN SubSeq(sorted, 1, p) \o << x >> \o SubSeq(sorted, p + 1, Len(sorted))

\* Array.prototype.sort (stable) on a copy of the list
RECURSIVE SortCoins(_, _)
SortCoins(coins, mode) ==
    IF Len(coins) <= 1 THEN coins
    ELSE InsertSorted(SortCoins(SubSeq(coins, 1, Len(coins) - 1), mode), coins[Len(coins)], mode)

\* variant: the Data Set itself is sorted, not a copy
HandleSortInPlace(mode) ==
    /\ started
    /\ sortOption' = mode
    /\ cryptocurrencies' = SortCoins(cryptocurrencies, mode)
    /\ cryptoList' = DisplayCryptocurrencies(cryptocurrencies', comparisonCoins, checkboxes)
    /\ notices' = << >>
    /\ UNCHANGED <<clock, now, started, comparisonCoins, lastFetchTime,
                   isInitialLoad, timers, inflight, storage, checkboxes, darkModeClass,
                   searchInput, comparisonContainer, loaderOverlay,
                   lastRequestAt, lastCompletionAt, failsInRow, errorsInRow, dataBeforeFails, toggleLog, removeLog, formatArg, formatted>>

\* handleSort(), the dropdown set to mode
HandleSort(mode) ==
    /\ started
    /\ sortOption' = mode
    /\ cryptoList' = DisplayCryptocurrencies(SortCoins(cryptocurrencies, mode), comparisonCoins, checkboxes)
    /\ notices' = << >>
    /\ UNCHANGED <<clock, now, started, cryptocurrencies, comparisonCoins, lastFetchTime,
                   isInitialLoad, timers, inflight, storage, checkboxes, darkModeClass,
                   searchInput, comparisonContainer, loaderOverlay,
                   lastRequestAt, lastCompletionAt, failsInRow, errorsInRow, dataBeforeFails, toggleLog, removeLog, formatArg, formatted>>

----------------------------------------------------------------------------
(* Preferences *)

PreferenceFlags == {"show24hChange", "showMarketCap", "showVolume", "enableDarkMode"}

\* variant: enableDarkMode is read from the volume checkbox
SaveUserPreferencesCopyPaste(store, boxes) ==
    [store EXCEPT !.userPreferences =
        Item(StringifyPrefs([boxes EXCEPT !.enableDarkMode = boxes.showVolume]))]

\* saveUserPreferences(): the stored item
SaveUserPreferences(store, boxes) ==
    [store EXCEPT !.userPreferences = Item(StringifyPrefs(boxes))]

\* the user flips a preference checkbox; its change listener runs
PreferenceChange(flag) ==
    /\ started
    /\ flag \in PreferenceFlags
    /\ checkboxes' = [checkboxes EXCEPT ![flag] = ~checkboxes[flag]]
    /\ storage' = SaveUserPreferences(storage, checkboxes')
    /\ cryptoList' = DisplayCryptocurrencies(cryptocurrencies, comparisonCoins, checkboxes')
    /\ comparisonContainer' = UpdateComparisonSection(comparisonCoins, cryptocurrencies, checkboxes')
    /\ darkModeClass' = IF flag = "enableDarkMode" THEN checkboxes'.enableDarkMode ELSE darkModeClass
    /\ notices' = << >>
    /\ UNCHANGED <<clock, now, started, cryptocurrencies, comparisonCoins, lastFetchTime,
                   isInitialLoad, timers, inflight, searchInput, sortOption, loaderOverlay,
                   lastRequestAt, lastCompletionAt, failsInRow, errorsInRow,
                   dataBeforeFails, toggleLog, removeLog, formatArg, formatted>>

----------------------------------------------------------------------------

\* a step of the page itself, and a step of the user
Sched(A) == A /\ UNCHANGED userOps
User(A, budget) == userOps < budget /\ A /\ userOps' = userOps + 1

\* The scheduler in fine time steps, with the wall clock set back now and
\* then, and a few user actions in every scheduler state.
Next ==
    \/ Sched(Ready)
    \/ \E i \in 1..Len(timers) : Sched(TimerFire(i))
    \/ \E i \in 1..Len(inflight) : \E data \in Responses : Sched(FetchSuccess(i, data))
    \/ \E i \in 1..Len(inflight) : \E kind \in FailureKinds : Sched(FetchFail(i, kind))
    \/ \E d \in TickSteps : Sched(Tick(d))
    \/ \E d \in SetBackSteps : Sched(SetBack(d))
    \/ \E k \in 1..Len(cryptoList.cards) : User(CardClick(k), MaxUserOps)
    \/ \E k \in 1..Len(comparisonContainer.cards) : User(RemoveClick(k), MaxUserOps)
    \/ \E term \in SearchTerms : User(HandleSearch(term), MaxUserOps)
    \/ \E mode \in SortModes : User(HandleSort(mode), MaxUserOps)
    \/ \E flag \in PreferenceFlags : User(PreferenceChange(flag), MaxUserOps)

Spec == Init /\ [][Next]_vars

\* The page on a wall clock that is never set back: Date.now() and the timers'
\* time base advance together.
NextMono ==
    \/ Sched(Ready)
    \/ \E i \in 1..Len(timers) : Sched(TimerFire(i))
    \/ \E i \in 1..Len(inflight) : \E data \in Responses : Sched(FetchSuccess(i, data))
    \/ \E i \in 1..Len(inflight) : \E kind \in FailureKinds : Sched(FetchFail(i, kind))
    \/ \E d \in TickSteps : Sched(Tick(d))
    \/ \E k \in 1..Len(cryptoList.cards) : User(CardClick(k), MaxUserOps)
    \/ \E k \in 1..Len(comparisonContainer.cards) : User(RemoveClick(k), MaxUserOps)
    \/ \E term \in SearchTerms : User(HandleSearch(term), MaxUserOps)
    \/ \E mode \in SortModes : User(HandleSort(mode), MaxUserOps)
    \/ \E flag \in PreferenceFlags : User(PreferenceChange(flag), MaxUserOps)

SpecMono == Init /\ [][NextMono]_vars

\* Longer runs of user actions around the fetch cycle, in steps of one
\* rate-limit interval.
NextUI ==
    \/ Sched(Ready)
    \/ \E i \in 1..Len(timers) : Sched(TimerFire(i))
    \/ \E i \in 1..Len(inflight) : \E data \in Responses : Sched(FetchSuccess(i, data))
    \/ \E i \in 1..Len(inflight) : \E kind \in FailureKinds : Sched(FetchFail(i, kind))
    \/ (clock + RATE_LIMIT_INTERVAL <= MaxClockUI /\ Sched(Tick(RATE_LIMIT_INTERVAL)))
    \/ \E k \in 1..Len(cryptoList.cards) : User(CardClick(k), MaxUserOpsUI)
    \/ \E k \in 1..Len(comparisonContainer.cards) : User(RemoveClick(k), MaxUserOpsUI)
    \/ \E term \in SearchTerms : User(HandleSearch(term), MaxUserOpsUI)
    \/ \E mode \in SortModes : User(HandleSort(mode), MaxUserOpsUI)
    \/ \E flag \in PreferenceFlags : User(PreferenceChange(flag), MaxUserOpsUI)

SpecUI == Init /\ [][NextUI]_vars

\* The page as in SpecUI, with removeCoinFromComparison also called with ids
\* of the caller's choice.
NextCall ==
    \/ Sched(Ready)
    \/ \E i \in 1..Len(timers) : Sched(TimerFire(i))
    \/ \E i \in 1..Len(inflight) : \E data \in Responses : Sched(FetchSuccess(i, data))
    \/ \E i \in 1..Len(inflight) : \E kind \in FailureKinds : Sched(FetchFail(i, kind))
    \/ (clock + RATE_LIMIT_INTERVAL <= MaxClockUI /\ Sched(Tick(RATE_LIMIT_INTERVAL)))
    \/ \E k \in 1..Len(cryptoList.cards) : User(CardClick(k), MaxUserOpsCall)
    \/ \E k \in 1..Len(comparisonContainer.cards) : User(RemoveClick(k), MaxUserOpsCall)
    \/ \E id \in CoinIds : User(RemoveCall(id), MaxUserOpsCall)
    \/ \E term \in SearchTerms : User(HandleSearch(term), MaxUserOpsCall)
    \/ \E mode \in SortModes : User(HandleSort(mode), MaxUserOpsCall)
    \/ \E flag \in PreferenceFlags : User(PreferenceChange(flag), MaxUserOpsCall)

SpecCall == Init /\ [][NextCall]_vars

\* The scheduler running without end: time always advances, a timer that is
\* due fires, an outstanding request completes.
TimerFires == \E i \in 1..Len(timers) : Sched(TimerFire(i))
RequestCompletes ==
    \/ \E i \in 1..Len(inflight) : \E data \in Responses : Sched(FetchSuccess(i, data))
    \/ \E i \in 1..Len(inflight) : \E kind \in FailureKinds : Sched(FetchFail(i, kind))
TimePasses == \E d \in TickSteps : Sched(TickWindow(d))

NextLive ==
    \/ Sched(Ready)
    \/ TimerFires
    \/ RequestCompletes
    \/ TimePasses
    \/ \E d \in SetBackSteps : Sched(SetBack(d))
    \/ \E k \in 1..Len(cryptoList.cards) : User(CardClick(k), MaxUserOps)
    \/ \E k \in 1..Len(comparisonContainer.cards) : User(RemoveClick(k), MaxUserOps)
    \/ \E term \in SearchTerms : User(HandleSearch(term), MaxUserOps)
    \/ \E mode \in SortModes : User(HandleSort(mode), MaxUserOps)
    \/ \E flag \in PreferenceFlags : User(PreferenceChange(flag), MaxUserOps)

SpecLive ==
    /\ Init /\ [][NextLive]_vars
    /\ WF_vars(Sched(Ready))
    /\ WF_vars(TimerFires)
    /\ WF_vars(RequestCompletes)
    /\ WF_vars(TimePasses)

----------------------------------------------------------------------------
(* The formatting functions on their own *)
pageVars ==
    <<clock, now, started, cryptocurrencies, comparisonCoins, lastFetchTime,
      isInitialLoad, timers, inflight, storage, checkboxes, darkModeClass,
      searchInput, sortOption, cryptoList, comparisonContainer, loaderOverlay,
      notices, lastRequestAt, lastCompletionAt, failsInRow, errorsInRow,
      dataBeforeFails, userOps, toggleLog, removeLog>>

InitFormat ==
    /\ PageInit
    /\ storage.comparisonCoins = NoItem
    /\ storage.userPreferences = NoItem
    /\ loaderOverlay.hidden
    /\ formatArg \in FormatArgs
    /\ formatted = NotFormatted

FormatPriceCall ==
    /\ formatted.fn = "none"
    /\ formatted' = [fn |-> "formatPrice", text |-> FormatPrice(formatArg)]
    /\ UNCHANGED <<pageVars, formatArg>>

FormatLargeNumberCall ==
    /\ formatted.fn = "none"
    /\ formatted' = [fn |-> "formatLargeNumber", text |-> FormatLargeNumber(formatArg)]
    /\ UNCHANGED <<pageVars, formatArg>>

NextFormat ==
    \/ FormatPriceCall
    \/ FormatLargeNumberCall

SpecFormat == InitFormat /\ [][NextFormat]_vars

----------------------------------------------------------------------------
(* Properties *)

IsSelected(id) == \E j \in 1..Len(comparisonCoins) : comparisonCoins[j].id = id

\* C1: in every reachable state comparisonCoins holds at most MAX_COMPARISON
\* (5) entries, whatever toggles, panel removals and fetch events came before,
\* from no saved selection or a saved one of at most five entries.
SelectionAtMostFive == Len(comparisonCoins) <= MAX_COMPARISON

\* the fifth entry has just been added by a click
FifthEntryAdded ==
    /\ Len(comparisonCoins) = MAX_COMPARISON
    /\ Len(notices) = 1
    /\ notices[1].text = "added_to_comparison"
    /\ toggleLog # << >>
    /\ Len(toggleLog[Len(toggleLog)].before) = MAX_COMPARISON - 1

\* C2: a click on a card whose coin is not selected while five entries are
\* selected changes neither comparisonCoins (content and order) nor the saved
\* selection, and shows exactly one notice, the refusal.
FullSelectionRefusesAdd ==
    [][\A k \in 1..Len(cryptoList.cards) :
          ( /\ CardClick(k)
            /\ ~IsSelected(cryptoList.cards[k].coin.id)
            /\ Len(comparisonCoins) = MAX_COMPARISON )
          => /\ comparisonCoins' = comparisonCoins
             /\ storage' = storage
             /\ Len(notices') = 1
             /\ notices'[1].type = "error"
             /\ notices'[1].text = "maximum_comparison"
             /\ notices'[1].num = MAX_COMPARISON]_vars

\* a click on an unselected coin has just been refused at five entries
AddRefused ==
    /\ Len(comparisonCoins) = MAX_COMPARISON
    /\ notices = << LimitNotice >>
    /\ toggleLog # << >>
    /\ toggleLog[Len(toggleLog)].before = comparisonCoins
    /\ ~IsSelected(toggleLog[Len(toggleLog)].id)

\* C3: an invocation of fetchCryptocurrencyData with lastFetchTime # 0 and
\* less than 60000 ms since lastFetchTime sends no request, leaves the Data
\* Set and lastFetchTime alone, shows exactly one info notice whose number is
\* the remaining wait rounded up to whole seconds, and arms exactly one timer,
\* due after the remaining wait 60000 - (now - lastFetchTime).  (The
\* invocation at startup always finds lastFetchTime = 0.)
RateLimitDefers ==
    [][ /\ (Ready => lastFetchTime = 0)
        /\ \A i \in 1..Len(timers) :
             ( /\ TimerFire(i)
               /\ lastFetchTime # 0
               /\ now - lastFetchTime < RATE_LIMIT_INTERVAL )
             => LET wait == RATE_LIMIT_INTERVAL - (now - lastFetchTime) IN
                /\ inflight' = inflight
                /\ lastRequestAt' = lastRequestAt
                /\ cryptocurrencies' = cryptocurrencies
                /\ lastFetchTime' = lastFetchTime
                /\ Len(notices') = 1
                /\ notices'[1].type = "info"
                /\ notices'[1].text = "rate_limit_wait_seconds"
                /\ notices'[1].num * 1000 >= wait
                /\ (notices'[1].num - 1) * 1000 < wait
                /\ Len(timers') = Len(timers)
                /\ timers' = Append(RemoveAt(timers, i), clock + wait)]_vars

\* an invocation has just been deferred, with a wait that is no whole number
\* of seconds
FetchDeferred ==
    /\ Len(notices) = 1
    /\ notices[1].text = "rate_limit_wait_seconds"
    /\ inflight = << >>
    /\ Len(timers) = 1
    /\ (timers[1] - clock) % 1000 # 0
    /\ notices[1].num = ((timers[1] - clock) \div 1000) + 1

\* C4: a request is never sent less than 60000 ms (of elapsed time, the time
\* timers run on) after the request before it was sent, whether that one
\* succeeded or failed.
RequestsOneIntervalApart ==
    [][(Len(inflight') > Len(inflight) /\ lastRequestAt # -1)
          => clock - lastRequestAt >= RATE_LIMIT_INTERVAL]_vars

\* a request is outstanding that was sent after an earlier one had failed
RequestAfterFailure ==
    /\ failsInRow > 0
    /\ Len(inflight) = 1
    /\ lastCompletionAt # -1
    /\ inflight[1] >= lastCompletionAt

\* C5: a failed fetch (transport error or non-OK status) leaves the Data Set
\* and lastFetchTime as they were, shows exactly one notice, of type error,
\* and arms exactly one retry due 60000 ms later; after two failures in a row
\* the Data Set is what it was before the first of them (empty when no fetch
\* ever succeeded) and the two failures have shown exactly two error notices.
FailureKeepsData ==
    /\ [][\A i \in 1..Len(inflight) : \A kind \in FailureKinds :
            FetchFail(i, kind)
            => /\ cryptocurrencies' = cryptocurrencies
               /\ lastFetchTime' = lastFetchTime
               /\ Len(notices') = 1
               /\ notices'[1].type = "error"
               /\ Len(timers') = Len(timers) + 1
               /\ timers' = Append(timers, clock + RATE_LIMIT_INTERVAL)]_vars
    /\ [](failsInRow = 2
            => /\ cryptocurrencies = dataBeforeFails
               /\ errorsInRow = 2
               /\ (lastFetchTime = 0 => cryptocurrencies = << >>))

\* two fetches in a row have failed after one that had delivered data
TwoFailuresAfterData ==
    /\ failsInRow = 2
    /\ dataBeforeFails # << >>
    /\ notices = << FetchErrorNotice >>

\* C6: a successful fetch replaces the Data Set by the response, sets
\* lastFetchTime to the current time, leaves the main list showing the
\* records of the response in its order and the comparison panel showing one
\* card per selected entry, resolved against the response, and arms exactly
\* one timer due 60000 ms later.
SuccessReplacesData ==
    [][\A i \in 1..Len(inflight) : \A data \in Responses :
          FetchSuccess(i, data)
          => /\ cryptocurrencies' = data
             /\ lastFetchTime' = now
             /\ Len(cryptoList'.cards) = Len(data)
             /\ \A k \in 1..Len(data) : cryptoList'.cards[k].coin = data[k]
             /\ Len(comparisonContainer'.cards) = Len(comparisonCoins)
             /\ \A j \in 1..Len(comparisonCoins) :
                  LET card == comparisonContainer'.cards[j] IN
                  /\ card.id = comparisonCoins[j].id
                  /\ card.live = (\E k \in 1..Len(data) : data[k].id = card.id)
                  /\ \A k \in 1..Len(data) :
                       data[k].id = card.id => card.price = data[k].current_price
             /\ Len(timers') = Len(timers) + 1
             /\ timers' = Append(timers, clock + RATE_LIMIT_INTERVAL)]_vars

\* a fetch has just succeeded and the panel shows a card with live data next
\* to a card of a coin the response does not hold
SuccessRendered ==
    /\ lastCompletionAt = clock
    /\ failsInRow = 0
    /\ lastFetchTime = now
    /\ cryptocurrencies # << >>
    /\ cryptoList.kind = "cards"
    /\ timers = << clock + RATE_LIMIT_INTERVAL >>
    /\ \E a, b \in 1..Len(comparisonContainer.cards) :
          comparisonContainer.cards[a].live /\ ~comparisonContainer.cards[b].live

\* C7: at most one request is outstanding at any time, and an outstanding
\* request was sent after the completion (success or failure) of the request
\* before it.
OneRequestAtATime ==
    /\ Len(inflight) <= 1
    /\ (Len(inflight) = 1 /\ lastCompletionAt # -1) => inflight[1] > lastCompletionAt

\* a request is outstanding after an earlier one has completed
SecondRequestOutstanding ==
    /\ Len(inflight) = 1
    /\ lastCompletionAt # -1
    /\ lastRequestAt > lastCompletionAt

\* C9: a step of the user (card click, panel removal, search, sort,
\* preference change) changes neither the Data Set (content and order), nor
\* lastFetchTime, nor the armed timers, nor the outstanding requests; the Data
\* Set and lastFetchTime change only in the completion of a successful fetch.
OnlyFetchWritesData ==
    [][ /\ (userOps' # userOps
              => UNCHANGED <<cryptocurrencies, lastFetchTime, timers, inflight>>)
        /\ (cryptocurrencies' # cryptocurrencies \/ lastFetchTime' # lastFetchTime)
              => \E i \in 1..Len(inflight) : \E data \in Responses :
                    FetchSuccess(i, data)]_vars

\* the user has sorted a Data Set of several records into another order
SortedAnotherOrder ==
    /\ userOps > 0
    /\ Len(cryptocurrencies) > 1
    /\ Len(cryptoList.cards) = Len(cryptocurrencies)
    /\ cryptoList.cards[1].coin # cryptocurrencies[1]
    /\ Len(timers) = 1

\* C10: two clicks in a row on the card of a coin that was not selected, the
\* selection holding fewer than five entries, leave comparisonCoins with its
\* original content and order, and the saved selection parses to that value.
ToggleTwiceRestores ==
    ( /\ Len(toggleLog) = 2
      /\ toggleLog[1].id = toggleLog[2].id
      /\ FindIndex(toggleLog[1].before, toggleLog[1].id) = 0
      /\ Len(toggleLog[1].before) < MAX_COMPARISON )
    => /\ comparisonCoins = toggleLog[1].before
       /\ storage.comparisonCoins # NoItem
       /\ ParseCoins(storage.comparisonCoins[1]) = toggleLog[1].before

\* a coin has been added and removed again by two clicks, other entries
\* being selected
ToggledTwice ==
    /\ Len(toggleLog) = 2
    /\ toggleLog[1].id = toggleLog[2].id
    /\ FindIndex(toggleLog[1].before, toggleLog[1].id) = 0
    /\ toggleLog[1].before # << >>
    /\ Len(toggleLog[2].before) = Len(toggleLog[1].before) + 1
    /\ Len(notices) = 1
    /\ notices[1].text = "removed_from_comparison"

\* C8: when time keeps advancing, every due timer fires and every request
\* completes, a failed fetch is always followed by another request, requests
\* are sent again and again without end, and a request that succeeds after
\* failures replaces the Data Set by its response.
SelfHeals ==
    /\ [](failsInRow > 0 => <>(inflight # << >>))
    /\ []<>(inflight # << >>)
    /\ []<>(inflight = << >>)
    /\ [][\A i \in 1..Len(inflight) : \A data \in Responses :
            (FetchSuccess(i, data) /\ failsInRow > 0) => cryptocurrencies' = data]_vars

\* a fetch that delivered data and then MaxFails failed fetches lie behind,
\* and the next request is outstanding
RequestAfterManyFailures ==
    /\ failsInRow = MaxFails
    /\ errorsInRow = MaxFails
    /\ cryptocurrencies # << >>
    /\ cryptocurrencies = dataBeforeFails
    /\ Len(inflight) = 1
    /\ inflight[1] > lastCompletionAt
    /\ timers = << >>

\* the entries of selection whose id is not id, in their order
WithoutId(selection, id) == SelectSeq(selection, LAMBDA e : e.id # id)

\* C11: comparisonCoins never holds two entries with the same id, and its
\* order is insertion order: a click that adds appends the new entry behind
\* all others, and a removal (by a click on a selected card, or from the
\* panel) takes out the entries of that id and nothing else, the others
\* keeping their order.
SelectionOrdered ==
    /\ [](\A i, j \in 1..Len(comparisonCoins) :
            comparisonCoins[i].id = comparisonCoins[j].id => i = j)
    /\ [][\A k \in 1..Len(cryptoList.cards) :
            CardClick(k)
            => LET coin == cryptoList.cards[k].coin IN
               IF IsSelected(coin.id)
               THEN /\ comparisonCoins' = WithoutId(comparisonCoins, coin.id)
                    /\ Len(comparisonCoins') = Len(comparisonCoins) - 1
               ELSE IF Len(comparisonCoins) < MAX_COMPARISON
                    THEN /\ Len(comparisonCoins') = Len(comparisonCoins) + 1
                         /\ SubSeq(comparisonCoins', 1, Len(comparisonCoins)) = comparisonCoins
                         /\ comparisonCoins'[Len(comparisonCoins')].id = coin.id
                    ELSE comparisonCoins' = comparisonCoins]_vars
    /\ [][\A k \in 1..Len(comparisonContainer.cards) :
            RemoveClick(k)
            => LET id == comparisonContainer.cards[k].id IN
               /\ comparisonCoins' = WithoutId(comparisonCoins, id)
               /\ IsSelected(id) => Len(comparisonCoins') = Len(comparisonCoins) - 1]_vars

\* a click has removed an entry that had entries before and behind it
MiddleEntryRemoved ==
    /\ toggleLog # << >>
    /\ LET click == toggleLog[Len(toggleLog)]
           at == FindIndex(click.before, click.id)
       IN /\ at > 1
          /\ at < Len(click.before)
          /\ Len(comparisonCoins) = Len(click.before) - 1
    /\ notices # << >>
    /\ notices[1].text = "removed_from_comparison"

\* the panel's j-th card is the card of the selection's j-th entry, resolved
\* against the Data Set
CardShowsEntry(card, entry, data) ==
    /\ card.id = entry.id
    /\ card.live = (\E k \in 1..Len(data) : data[k].id = entry.id)
    /\ \A k \in 1..Len(data) :
         data[k].id = entry.id => (card.name = data[k].name /\ card.price = data[k].current_price)
    /\ ~card.live => (card.name = entry.name /\ card.symbol = entry.symbol)

\* C12: in every state after startup has run, before the first successful
\* fetch and after failed fetches as well, the comparison panel shows exactly
\* one card per entry of comparisonCoins, in selection order, with live fields
\* when the id is in the Data Set and with the saved name and symbol and a
\* loading placeholder when it is not.
PanelShowsSelection ==
    started
    => /\ Len(comparisonContainer.cards) = Len(comparisonCoins)
       /\ \A j \in 1..Len(comparisonCoins) :
            CardShowsEntry(comparisonContainer.cards[j], comparisonCoins[j], cryptocurrencies)

\* C13: after every successful fetch the main list shows the new Data Set
\* filtered by the search term in the search field and ordered by the sort
\* mode selected in the dropdown.
SuccessHonoursSearchAndSort ==
    [][\A i \in 1..Len(inflight) : \A data \in Responses :
          FetchSuccess(i, data)
          => LET shown == SortCoins(FilterCoins(data, ToLowerCase(Trim(searchInput))), sortOption)
             IN /\ Len(cryptoList'.cards) = Len(shown)
                /\ \A k \in 1..Len(shown) : cryptoList'.cards[k].coin = shown[k]]_vars

\* C14: after every click that adds or removes an entry and every removal
\* from the panel, localStorage holds an item for the selection that parses
\* to comparisonCoins, content and order; and at any time after startup a
\* fresh startup (comparisonCoins empty, loadComparisonCoins) would load a
\* selection equal to the current one, the empty one when no item is stored.
SelectionRoundTrip ==
    /\ [](started => LoadComparisonCoins(storage, << >>) = comparisonCoins)
    /\ [](storage.comparisonCoins = NoItem => LoadComparisonCoins(storage, << >>) = << >>)
    /\ [][( /\ \/ \E k \in 1..Len(cryptoList.cards) : CardClick(k)
               \/ \E k \in 1..Len(comparisonContainer.cards) : RemoveClick(k)
            /\ comparisonCoins' # comparisonCoins )
          => /\ storage'.comparisonCoins # NoItem
             /\ ParseCoins(storage'.comparisonCoins[1]) = comparisonCoins'
             /\ storage'.userPreferences = storage.userPreferences]_vars

\* an entry has just been removed from the panel, entries remain, and the
\* stored item is the text of the remaining selection
PanelRemovalSaved ==
    /\ userOps > 0
    /\ toggleLog = << >>
    /\ notices # << >>
    /\ notices[1].text = "removed_from_comparison"
    /\ Len(comparisonCoins) >= 3
    /\ storage.comparisonCoins = Item(StringifyCoins(comparisonCoins))

\* C15: every flip of a preference checkbox stores an item holding all four
\* flags, equal to the checkboxes' new state, and renders the main list (one
\* card per record of the Data Set) and the comparison panel (one card per
\* selected entry) with the new flags; loading the stored item at startup
\* gives the checkboxes the flags last saved.
PreferencesRoundTrip ==
    /\ []((started /\ storage.userPreferences # NoItem)
            => LoadUserPreferences(storage, AllOn) = checkboxes)
    /\ [][\A flag \in PreferenceFlags :
            PreferenceChange(flag)
            => /\ \A f \in PreferenceFlags : checkboxes'[f] = (IF f = flag THEN ~checkboxes[f] ELSE checkboxes[f])
               /\ storage'.userPreferences # NoItem
               /\ { storage'.userPreferences[1][m][1] : m \in 1..Len(storage'.userPreferences[1]) }
                     = PreferenceFlags
               /\ \A f \in PreferenceFlags :
                     LoadUserPreferences(storage', AllOn)[f] = checkboxes'[f]
                     /\ LoadUserPreferences(storage', AllOff)[f] = checkboxes'[f]
               /\ storage'.comparisonCoins = storage.comparisonCoins
               /\ Len(cryptoList'.cards) = Len(cryptocurrencies)
               /\ \A k \in 1..Len(cryptocurrencies) :
                     /\ cryptoList'.cards[k].coin = cryptocurrencies[k]
                     /\ cryptoList'.cards[k].showChange = checkboxes'.show24hChange
                     /\ cryptoList'.cards[k].showMarketCap = checkboxes'.showMarketCap
                     /\ cryptoList'.cards[k].showVolume = checkboxes'.showVolume
               /\ Len(comparisonContainer'.cards) = Len(comparisonCoins)
               /\ \A j \in 1..Len(comparisonCoins) :
                     LET card == comparisonContainer'.cards[j] IN
                     /\ card.id = comparisonCoins[j].id
                     /\ card.live => /\ card.showChange = checkboxes'.show24hChange
                                     /\ card.showMarketCap = checkboxes'.showMarketCap
                                     /\ card.showVolume = checkboxes'.showVolume]_vars

\* a flip of a checkbox has left flags that no earlier session had saved,
\* stored and shown on the cards of the list and on a live card of the panel
PreferenceFlipped ==
    /\ userOps > 0
    /\ notices = << >>
    /\ ~checkboxes.showVolume
    /\ checkboxes.show24hChange
    /\ storage.userPreferences = Item(StringifyPrefs(checkboxes))
    /\ cryptoList.kind = "cards"
    /\ ~cryptoList.cards[1].showVolume
    /\ cryptoList.cards[1].showChange
    /\ \E j \in 1..Len(comparisonContainer.cards) :
          /\ comparisonContainer.cards[j].live
          /\ ~comparisonContainer.cards[j].showVolume
          /\ comparisonContainer.cards[j].showChange

\* C16: from startup until the first successful fetch completes, through any
\* failed attempts, isInitialLoad is true and the full-screen loader is
\* visible; the first success hides the loader and ends the initial phase;
\* from then on isInitialLoad stays false and the loader stays hidden.
LoadingPhase ==
    /\ [](started => (isInitialLoad <=> lastFetchTime = 0))
    /\ [](started => (isInitialLoad <=> ~loaderOverlay.hidden))
    /\ [][~isInitialLoad => ~isInitialLoad']_vars
    /\ [][(started /\ loaderOverlay.hidden) => loaderOverlay'.hidden]_vars
    /\ [][\A i \in 1..Len(inflight) : \A data \in Responses :
            (FetchSuccess(i, data) /\ isInitialLoad)
            => (~isInitialLoad' /\ loaderOverlay'.hidden)]_vars
    /\ [][\A i \in 1..Len(inflight) : \A kind \in FailureKinds :
            (FetchFail(i, kind) /\ isInitialLoad)
            => (isInitialLoad' /\ ~loaderOverlay'.hidden /\ cryptoList' = cryptoList)]_vars

\* the initial phase has lasted through two failed attempts and the third
\* request is outstanding behind the full-screen loader
StillInitialAfterFailures ==
    /\ isInitialLoad
    /\ failsInRow = 2
    /\ Len(inflight) = 1
    /\ loaderOverlay = [hidden |-> FALSE, text |-> "Fetching"]
    /\ lastFetchTime = 0

\* what removeCoinFromComparison(id) is to do in a step
RemoveContract(id) ==
    IF IsSelected(id)
    THEN /\ comparisonCoins' = WithoutId(comparisonCoins, id)
         /\ Len(comparisonCoins') = Len(comparisonCoins) - 1
         /\ storage'.comparisonCoins # NoItem
         /\ ParseCoins(storage'.comparisonCoins[1]) = comparisonCoins'
         /\ Len(comparisonContainer'.cards) = Len(comparisonCoins')
         /\ \A j \in 1..Len(comparisonCoins') :
               comparisonContainer'.cards[j].id = comparisonCoins'[j].id
         /\ Len(notices') = 1
         /\ notices'[1].type = "info"
         /\ notices'[1].text = "removed_from_comparison"
         /\ \E j \in 1..Len(comparisonCoins) :
               comparisonCoins[j].id = id /\ notices'[1].name = comparisonCoins[j].name
    ELSE /\ comparisonCoins' = comparisonCoins
         /\ storage' = storage
         /\ comparisonContainer' = comparisonContainer
         /\ cryptoList' = cryptoList
         /\ notices' = << >>

\* C17: removeCoinFromComparison(id), called from a remove button of the
\* panel or with an id of the caller's choice: if an entry of that id is
\* selected, exactly that entry is taken out, the new selection is stored,
\* the panel shows one card per remaining entry and exactly one notice, of
\* type info, names the removed entry; if no entry of that id is selected,
\* the selection, localStorage, the panel and the list stay as they are and
\* no notice is shown.
RemoveRemovesOrNothing ==
    /\ [][\A id \in CoinIds : RemoveCall(id) => RemoveContract(id)]_vars
    /\ [][\A k \in 1..Len(comparisonContainer.cards) :
            RemoveClick(k) => RemoveContract(comparisonContainer.cards[k].id)]_vars

\* the function has been called with an id that was not selected while other
\* entries were, and nothing has changed since
RemoveCalledForUnselected ==
    /\ removeLog # << >>
    /\ removeLog[1].before # << >>
    /\ FindIndex(removeLog[1].before, removeLog[1].id) = 0
    /\ comparisonCoins = removeLog[1].before
    /\ notices = << >>
    /\ toggleLog = << >>

\* C18: no step of the fetch cycle (an invocation that is deferred by the rate
\* limit or sends a request, a success, a failure) changes comparisonCoins,
\* content or order, or the stored selection; an entry whose coin the new
\* Data Set does not hold stays selected.
FetchKeepsSelection ==
    /\ [][\A i \in 1..Len(timers) :
            TimerFire(i) => (comparisonCoins' = comparisonCoins /\ storage' = storage)]_vars
    /\ [][\A i \in 1..Len(inflight) : \A kind \in FailureKinds :
            FetchFail(i, kind) => (comparisonCoins' = comparisonCoins /\ storage' = storage)]_vars
    /\ [][\A i \in 1..Len(inflight) : \A data \in Responses :
            FetchSuccess(i, data)
            => /\ comparisonCoins' = comparisonCoins
               /\ storage' = storage
               /\ \A j \in 1..Len(comparisonCoins) :
                     \E m \in 1..Len(comparisonCoins') :
                        comparisonCoins'[m].id = comparisonCoins[j].id]_vars

\* a coin selected by a click on its card is still selected after a success
\* whose response does not hold it
SelectedCoinLeftDataSet ==
    /\ IsSelected("dogecoin")
    /\ cryptocurrencies # << >>
    /\ \A k \in 1..Len(cryptocurrencies) : cryptocurrencies[k].id # "dogecoin"
    /\ lastCompletionAt = clock
    /\ failsInRow = 0
    /\ notices = << >>
    /\ \E j \in 1..Len(comparisonContainer.cards) :
          comparisonContainer.cards[j].id = "dogecoin" /\ ~comparisonContainer.cards[j].live

\* str contains term, letters compared without regard to case
ContainsFold(str, term) ==
    \E p \in 0..(Len(str) - Len(term)) :
        \A q \in 1..Len(term) : LowerOf(str[p + q]) = LowerOf(term[q])

\* C19: a search submission shows exactly the records of the current Data
\* Set whose name or symbol contains the term (the text of the search field
\* without surrounding white space) without regard to case, in the Data Set's
\* order, leaving out none that matches; with an empty term it shows the whole
\* Data Set in its order; it changes neither the comparison panel nor the
\* Data Set.
SearchShowsMatches ==
    [][\A term \in SearchTerms :
          HandleSearch(term)
          => LET t == Trim(term)
                 want == SelectSeq(cryptocurrencies,
                            LAMBDA c : ContainsFold(c.name, t) \/ ContainsFold(c.symbol, t))
             IN /\ Len(cryptoList'.cards) = Len(want)
                /\ \A k \in 1..Len(want) : cryptoList'.cards[k].coin = want[k]
                /\ t = << >> =>
                     /\ Len(cryptoList'.cards) = Len(cryptocurrencies)
                     /\ \A k \in 1..Len(cryptocurrencies) :
                          cryptoList'.cards[k].coin = cryptocurrencies[k]
                /\ comparisonContainer' = comparisonContainer
                /\ cryptocurrencies' = cryptocurrencies]_vars

\* a search for BT has just shown the one record of several that contains it,
\* in its symbol and in lower case
SearchFoundBySymbol ==
    /\ searchInput = << "B", "T" >>
    /\ notices = << FoundNotice(1, << "b", "t" >>) >>
    /\ Len(cryptocurrencies) >= 2
    /\ Len(cryptoList.cards) = 1
    /\ cryptoList.cards[1].coin.id = "bitcoin"

\* the value a sort mode orders by (a null 24h change counts as 0, as in the
\* comparator's subtraction)
SortField(mode, coin) ==
    CASE mode \in {"market_cap_desc", "market_cap_asc"} -> coin.market_cap
      [] mode \in {"price_desc", "price_asc"} -> coin.current_price
      [] mode \in {"change_desc", "change_asc"} -> ToNumber(coin.price_change_percentage_24h)

\* C20: for each of the six sort modes, a sort selection shows a permutation
\* of the whole current Data Set (every record exactly once, whatever the
\* search field holds), ordered by the mode's field: never decreasing from one
\* card to the next for the ascending modes, never increasing for the
\* descending ones.
SortShowsOrderedPermutation ==
    [][\A mode \in SortModes :
          HandleSort(mode)
          => LET shown == cryptoList'.cards IN
             /\ Len(shown) = Len(cryptocurrencies)
             /\ \A k \in 1..Len(cryptocurrencies) :
                   Cardinality({ n \in 1..Len(shown) : shown[n].coin = cryptocurrencies[k] }) = 1
             /\ \A n \in 1..(Len(shown) - 1) :
                   IF mode \in {"market_cap_asc", "price_asc", "change_asc"}
                   THEN SortField(mode, shown[n].coin) <= SortField(mode, shown[n + 1].coin)
                   ELSE SortField(mode, shown[n].coin) >= SortField(mode, shown[n + 1].coin)
             /\ cryptocurrencies' = cryptocurrencies]_vars

\* a sort by ascending 24h change has shown the whole Data Set in another
\* order than its own, the record without a 24h change between the falling and
\* the rising one, while the search field holds a term that only some records
\* match
SortedDespiteSearch ==
    /\ sortOption = "change_asc"
    /\ notices = << >>
    /\ Len(cryptocurrencies) = 3
    /\ Len(cryptoList.cards) = 3
    /\ cryptoList.cards[1].coin.id = "ethereum"
    /\ cryptoList.cards[2].coin.price_change_percentage_24h = Null
    /\ cryptoList.cards[3].coin.id = "bitcoin"
    /\ cryptocurrencies[1].id = "bitcoin"
    /\ Trim(searchInput) # << >>
    /\ Len(FilterCoins(cryptocurrencies, ToLowerCase(Trim(searchInput)))) < Len(cryptocurrencies)

Reverse(s) == [ i \in 1..Len(s) |-> s[Len(s) + 1 - i] ]

\* the mode of the same field and the other direction
InverseMode(mode) ==
    CASE mode = "market_cap_desc" -> "market_cap_asc"
      [] mode = "market_cap_asc"  -> "market_cap_desc"
      [] mode = "price_desc"      -> "price_asc"
      [] mode = "price_asc"       -> "price_desc"
      [] mode = "change_desc"     -> "change_asc"
      [] mode = "change_asc"      -> "change_desc"

\* the records the main list shows, in its order
ShownCoins(list) == [ k \in 1..Len(list.cards) |-> list.cards[k].coin ]

\* C21 as stated: for every Data Set and every sort field, the list a sort
\* mode produces is exactly the reverse of the list the mode of the other
\* direction produces, also when records have equal values in the field.
SortInverseReverses ==
    [][\A mode \in SortModes :
          HandleSort(mode)
          => ShownCoins(cryptoList') = Reverse(SortCoins(cryptocurrencies, InverseMode(mode)))]_vars

\* C21 amended: the list a sort mode produces is exactly the reverse of the
\* list the mode of the other direction produces when no two records have
\* equal values in the field; when some have, the field values still run in
\* reverse, and records with equal values stand in Data Set order.
SortInverseReversesWithoutTies ==
    [][\A mode \in SortModes :
          HandleSort(mode)
          => LET shown == ShownCoins(cryptoList')
                 other == Reverse(SortCoins(cryptocurrencies, InverseMode(mode)))
                 ties == \E a, b \in 1..Len(cryptocurrencies) :
                            a # b /\ SortField(mode, cryptocurrencies[a]) = SortField(mode, cryptocurrencies[b])
             IN /\ Len(shown) = Len(other)
                /\ ~ties => shown = other
                /\ \A n \in 1..Len(shown) : SortField(mode, shown[n]) = SortField(mode, other[n])
                /\ \A a, b \in 1..Len(shown) :
                      (a < b /\ SortField(mode, shown[a]) = SortField(mode, shown[b]))
                      => FindIndex(cryptocurrencies, shown[a].id) < FindIndex(cryptocurrencies, shown[b].id)]_vars

\* a sort by ascending price has shown three records of different prices in
\* the reverse of the Data Set's own order, which is that of descending price
SortedInReverse ==
    /\ sortOption = "price_asc"
    /\ notices = << >>
    /\ Len(cryptocurrencies) = 3
    /\ cryptoList.kind = "cards"
    /\ ShownCoins(cryptoList) = Reverse(cryptocurrencies)
    /\ SortCoins(cryptocurrencies, "price_desc") = cryptocurrencies

\* ---- reading a formatted string back ----

IsDigits(s) == s # << >> /\ \A i \in 1..Len(s) : \E d \in 1..10 : DigitChars[d] = s[i]

DigitValue(c) == (CHOOSE d \in 1..10 : DigitChars[d] = c) - 1

RECURSIVE ParseNat(_)
ParseNat(s) ==
    IF s = << >> THEN 0
    ELSE 10 * ParseNat(SubSeq(s, 1, Len(s) - 1)) + DigitValue(s[Len(s)])

\* the text without its leading minus sign, which it carries iff x is negative
Unsigned(x, t) == IF x.neg /\ t # << >> /\ t[1] = "-" THEN SubSeq(t, 2, Len(t)) ELSE t

\* x is a number and x >= n
AtLeast(x, n) == x.kind = "number" /\ ~x.neg /\ x.whole >= n

\* t is x / 10^k to two decimals (the nearest such value) followed by the suffix
ScaledWithSuffix(x, k, suffix, t) ==
    /\ Len(t) >= 5
    /\ t[Len(t)] = suffix
    /\ t[Len(t) - 3] = "."
    /\ IsDigits(SubSeq(t, 1, Len(t) - 4))
    /\ IsDigits(SubSeq(t, Len(t) - 2, Len(t) - 1))
    /\ LET v == 100 * ParseNat(SubSeq(t, 1, Len(t) - 4)) + ParseNat(SubSeq(t, Len(t) - 2, Len(t) - 1))
           u == 10 ^ (k - 2)
       IN  /\ 2 * (x.whole - v * u) + (IF x.frac > 0 THEN 1 ELSE 0) <= u
           /\ 2 * (v * u - x.whole) <= u

\* the text formatLargeNumber owes to an argument that is null, absent, or at
\* least 1e3
LargeTiers(x, t) ==
    CASE x.kind # "number" -> t = NotAvailable
      [] AtLeast(x, 10 ^ 9) -> ScaledWithSuffix(x, 9, "B", t)
      [] AtLeast(x, 10 ^ 6) -> ScaledWithSuffix(x, 6, "M", t)
      [] AtLeast(x, 10 ^ 3) -> ScaledWithSuffix(x, 3, "K", t)
      [] OTHER -> TRUE

\* t is the plain decimal string of x: the digits of its whole part, and the
\* digits of its fraction after a point iff it has one
PlainDecimal(x, t) ==
    LET body == Unsigned(x, t) IN
    /\ x.neg => t # << >> /\ t[1] = "-"
    /\ IF x.frac = 0
       THEN IsDigits(body) /\ ParseNat(body) = x.whole
       ELSE \E i \in 2..(Len(body) - 1) :
               LET pre  == SubSeq(body, 1, i - 1)
                   post == SubSeq(body, i + 1, Len(body))
               IN  /\ body[i] = "."
                   /\ IsDigits(pre) /\ ParseNat(pre) = x.whole
                   /\ IsDigits(post) /\ Len(post) <= 7
                   /\ post[Len(post)] # "0"
                   /\ ParseNat(post) * (10 ^ (7 - Len(post))) = x.frac

Ungrouped(s) == SelectSeq(s, LAMBDA c : c # ",")

\* a whole part of at least four digits carries a comma before every group of
\* three digits, and nowhere else
GroupedByThousands(s) ==
    /\ s # << >>
    /\ s[1] # ","
    /\ \A i \in 1..Len(s) : (s[i] = ",") <=> ((Len(s) - i) % 4 = 3)

\* body is whole digits, a point and exactly d digits, and denotes the value
\* with d fractional digits nearest to the magnitude of x
FixedDigits(x, body, d) ==
    /\ Len(body) >= d + 2
    /\ body[Len(body) - d] = "."
    /\ IsDigits(SubSeq(body, 1, Len(body) - d - 1))
    /\ IsDigits(SubSeq(body, Len(body) - d + 1, Len(body)))
    /\ LET pw == ParseNat(SubSeq(body, 1, Len(body) - d - 1))
           pf == ParseNat(SubSeq(body, Len(body) - d + 1, Len(body)))
       IN  /\ pw - x.whole \in {0, 1}
           /\ LET diff == (pw - x.whole) * (10 ^ 7) + pf * (10 ^ (7 - d)) - x.frac IN
              2 * diff <= 10 ^ (7 - d) /\ 2 * (0 - diff) <= 10 ^ (7 - d)

\* x is a number below the positive number whole + frac / 10^7
Below(x, whole, frac) ==
    x.kind = "number" /\ (x.neg \/ x.whole < whole \/ (x.whole = whole /\ x.frac < frac))

\* C23: formatPrice selects its tier by thresholds, for every argument: null
\* or absent gives "N/A"; a value below 0.01 is shown with 6 fractional
\* digits; from 0.01 and below 1 with 4; from 1 and below 10000 with 2; from
\* 10000 with 2 fractional digits and thousands grouping.  The text is that of
\* the argument's value and of nothing else.
PriceTiers ==
    formatted.fn = "formatPrice"
    => LET x == formatArg
           t == formatted.text
           body == Unsigned(x, t)
       IN  /\ x.kind = "number" /\ x.neg => t # << >> /\ t[1] = "-"
           /\ CASE x.kind # "number" -> t = NotAvailable
                [] Below(x, 0, 100000) -> FixedDigits(x, body, 6)
                [] Below(x, 1, 0)      -> FixedDigits(x, body, 4)
                [] Below(x, 10000, 0)  -> FixedDigits(x, body, 2)
                [] OTHER -> /\ Len(body) >= 9
                            /\ GroupedByThousands(SubSeq(body, 1, Len(body) - 3))
                            /\ FixedDigits(x, Ungrouped(body), 2)

\* formatPrice has been applied to 1234567.5 and returned "1,234,567.50"
PriceGrouped ==
    /\ formatted.fn = "formatPrice"
    /\ formatArg = NumberArg(FALSE, 1234567, 5000000)
    /\ formatted.text = << "1", ",", "2", "3", "4", ",", "5", "6", "7", ".", "5", "0" >>

\* C24: after startup the pending fetch timers and the requests in flight are
\* exactly one in number, in every state: each path through
\* fetchCryptocurrencyData (deferral, success, failure) replaces the timer or
\* request it consumes by exactly one other, and no user action arms or
\* cancels one.
PollingLoopIsSingle ==
    /\ [](started => Len(timers) + Len(inflight) = 1)
    /\ [][started => Len(timers') + Len(inflight') = Len(timers) + Len(inflight)]_vars
    /\ [][userOps' # userOps => timers' = timers /\ inflight' = inflight]_vars

\* the loop has gone through a success and a deferral, a user action before
\* them, and holds exactly one timer
LoopSurvivedDeferral ==
    /\ started
    /\ userOps = 1
    /\ lastFetchTime # 0
    /\ Len(notices) = 1
    /\ notices[1].text = "rate_limit_wait_seconds"
    /\ Len(timers) = 1
    /\ Len(inflight) = 0

HighlightMatchesSelection ==
    \A k \in 1..Len(cryptoList.cards) :
        cryptoList.cards[k].selected <=> IsSelected(cryptoList.cards[k].coin.id)

\* two different cards have been clicked, one of them to deselect its coin,
\* and the list shows highlighted and plain cards side by side
MixedHighlightAfterToggles ==
    /\ Len(toggleLog) = 2
    /\ toggleLog[1].id # toggleLog[2].id
    /\ \E j \in 1..2 : \E m \in 1..Len(toggleLog[j].before) : toggleLog[j].before[m].id = toggleLog[j].id
    /\ \E k \in 1..Len(cryptoList.cards) : cryptoList.cards[k].selected
    /\ \E k \in 1..Len(cryptoList.cards) : ~cryptoList.cards[k].selected

====
